---- MODULE Spec2Model ----
(***************************************************************************)
(* Model of TableParserApp (src/App.tsx): the biometric auth gate, the     *)
(* spreadsheet fetch/parse flow, computeWidths and the table rendering.    *)
(* Every asynchronous function is cut at its awaits: the code between two  *)
(* awaits runs to completion on the single JavaScript thread and is one    *)
(* action.  JavaScript arrays are 0-based, the sequences here 1-based.     *)
(***************************************************************************)
EXTENDS Integers, Sequences, FiniteSets, TLC

VARIABLES
    authenticated,  \* useState<AuthState>(AuthState.PENDING)
    tableData,      \* useState({}): sheet name -> [widthArr, rows]
    loading,        \* useState<boolean>(false)
    alerts,         \* number of Alert.alert calls, by kind of alert
    fetchCalls,     \* number of invocations of fetchTable
    authRuns,       \* the runs of tryToAuthenticate, in order of start
    fetchRuns       \* the runs of fetchTable that passed the guard

vars == <<authenticated, tableData, loading, alerts, fetchCalls, authRuns, fetchRuns>>

\* ---------------------------------------------------------------- bounds
MaxAuthRuns == 2
MaxFetchCalls == 3
MaxRows == 2
MaxCols == 2

\* ------------------------------------------------------------ data types
AuthState == {"PENDING", "NOT_SUPPORTED", "AUTHENTICATED", "UNAUTHENTICATED"}

\* a cell is a string or a number (string | number)
Str(s) == [str |-> s]
Num(n) == [num |-> n]

Digit(d) == <<"0", "1", "2", "3", "4", "5", "6", "7", "8", "9">>[d + 1]

RECURSIVE NumberToString(_)
NumberToString(n) ==
    IF n < 0 THEN "-" \o NumberToString(0 - n)
    ELSE IF n < 10 THEN Digit(n)
    ELSE NumberToString(n \div 10) \o Digit(n % 10)

\* row[i].toString()
toString(cell) ==
    IF "str" \in DOMAIN cell THEN cell.str ELSE NumberToString(cell.num)

\* useState({}) / setTableData({})
EmptyTableData == [s \in {} |-> 0]

\* ---------------------------------------------------------- computeWidths
\* the condition of the if in the inner loop, widthArr[i] read out of range
\* being undefined
NeedsUpdate_Min(widthArr, i, charsWidth) ==
    i > Len(widthArr) \/ widthArr[i] = 0 \/ widthArr[i] > charsWidth

NeedsUpdate(widthArr, i, charsWidth) ==
    i > Len(widthArr) \/ widthArr[i] = 0 \/ widthArr[i] < charsWidth

\* widthArr[i] = charsWidth, i never beyond the end by more than one
AssignWidth(widthArr, i, charsWidth) ==
    IF i <= Len(widthArr) THEN [widthArr EXCEPT ![i] = charsWidth]
    ELSE Append(widthArr, charsWidth)

CharsWidth(cell) == 10 + Len(toString(cell)) * 10

RECURSIVE RowLoop(_, _, _)
RowLoop(widthArr, row, i) ==
    IF i > Len(row) THEN widthArr
    ELSE RowLoop(IF NeedsUpdate(widthArr, i, CharsWidth(row[i]))
                 THEN AssignWidth(widthArr, i, CharsWidth(row[i]))
                 ELSE widthArr,
                 row, i + 1)

RECURSIVE RowsLoop(_, _, _)
RowsLoop(widthArr, rows, r) ==
    IF r > Len(rows) THEN widthArr
    ELSE RowsLoop(RowLoop(widthArr, rows[r], 1), rows, r + 1)

computeWidths(rows) == RowsLoop(<< >>, rows, 1)

\* ----------------------------------------------------------- fetchTable
\* the guard of fetchTable
GuardRejects_Pending(auth) == auth # "AUTHENTICATED" /\ auth # "NOT_SUPPORTED" /\ auth # "PENDING"

GuardRejects(auth) == auth # "AUTHENTICATED" /\ auth # "NOT_SUPPORTED"

\* the "Load table" button is rendered in place of the spinner
LoadButtonRendered_Always(l) == TRUE

LoadButtonRendered(l) == ~l

\* setTableData({[sheetName]: {...}}) inside the loop over the sheets
SheetAssignment_Merge(td, sheetName, rows) ==
    (sheetName :> [widthArr |-> computeWidths(rows), rows |-> rows]) @@ td

SheetAssignment(td, sheetName, rows) ==
    sheetName :> [widthArr |-> computeWidths(rows), rows |-> rows]

RECURSIVE SheetsLoop(_, _, _)
SheetsLoop(td, worksheet, k) ==
    IF k > Len(worksheet) THEN td
    ELSE SheetsLoop(SheetAssignment(td, worksheet[k].name, worksheet[k].rows),
                    worksheet, k + 1)

\* setLoading(false) after the try/catch
LoadingAfterFetch_InTry(failed) == failed

LoadingAfterFetch(failed) == FALSE

AlertShown(title) == [alerts EXCEPT ![title] = @ + 1]

\* workbooks the download may decode to, sheets in iteration order
Workbooks ==
    { << [name |-> "Sheet1",
          rows |-> << <<Str("A"), Str("B")>>, <<Str("x"), Str("yy")>> >>] >>,
      << [name |-> "Sheet1",
          rows |-> << <<Str("A")>>, << >>, <<Num(5), Num(-12)>> >>],
         [name |-> "Sheet2",
          rows |-> << <<Str("id"), Str("")>>, <<Num(100)>>, << >> >>] >>,
      << [name |-> "Sheet1", rows |-> << <<Str("A")>> >>],
         [name |-> "Sheet2", rows |-> << >>] >>,
      << >> }

InFlight == {f \in 1..Len(fetchRuns) : fetchRuns[f].pc # "done"}

\* onPress of "Load table": fetchTable up to its first await
FetchTable ==
    /\ LoadButtonRendered(loading)
    /\ fetchCalls < MaxFetchCalls
    /\ fetchCalls' = fetchCalls + 1
    /\ IF GuardRejects(authenticated)
       THEN /\ alerts' = AlertShown("Auth error")
            /\ UNCHANGED <<loading, tableData, fetchRuns>>
       ELSE /\ loading' = TRUE
            /\ tableData' = EmptyTableData
            /\ fetchRuns' = Append(fetchRuns,
                   [pc |-> "fetch", outcome |-> "none", worksheet |-> << >>])
            /\ UNCHANGED alerts
    /\ UNCHANGED <<authenticated, authRuns>>

\* the download resolves; res.base64() is awaited next
FetchResponse(f) ==
    /\ fetchRuns[f].pc = "fetch"
    /\ fetchRuns' = [fetchRuns EXCEPT ![f].pc = "base64"]
    /\ UNCHANGED <<authenticated, tableData, loading, alerts, fetchCalls, authRuns>>

\* the catch block and the statement after it
FetchCatch(f, kind) ==
    /\ alerts' = AlertShown("Fetch error")
    /\ loading' = LoadingAfterFetch(TRUE)
    /\ fetchRuns' = [fetchRuns EXCEPT ![f].pc = "done", ![f].outcome = kind]
    /\ UNCHANGED <<authenticated, tableData, fetchCalls, authRuns>>

\* the download rejects
FetchNetworkFailure(f) ==
    /\ fetchRuns[f].pc = "fetch"
    /\ FetchCatch(f, "network_error")

\* res.base64() rejects or XLSX.read throws
FetchParseFailure(f) ==
    /\ fetchRuns[f].pc = "base64"
    /\ FetchCatch(f, "parse_error")

\* XLSX.read succeeds: the loop over the sheets, then setLoading(false)
FetchParsed(f, worksheet) ==
    /\ fetchRuns[f].pc = "base64"
    /\ tableData' = SheetsLoop(tableData, worksheet, 1)
    /\ loading' = LoadingAfterFetch(FALSE)
    /\ fetchRuns' = [fetchRuns EXCEPT ![f].pc = "done", ![f].outcome = "ok",
                                      ![f].worksheet = worksheet]
    /\ UNCHANGED <<authenticated, alerts, fetchCalls, authRuns>>

\* ---------------------------------------------------- tryToAuthenticate
NewAuthRun ==
    [pc |-> "sensor", sensor |-> "none", prompted |-> FALSE, prompt |-> "none",
     set |-> "none"]

\* the "Authenticate" button is rendered
AuthButtonRendered(auth) == auth # "AUTHENTICATED"

\* onPress of "Authenticate": tryToAuthenticate up to isSensorAvailable()
PressAuthenticate ==
    /\ AuthButtonRendered(authenticated)
    /\ Len(authRuns) < MaxAuthRuns
    /\ authRuns' = Append(authRuns, NewAuthRun)
    /\ UNCHANGED <<authenticated, tableData, loading, alerts, fetchCalls, fetchRuns>>

\* isBiometryAvailable: available as reported, false when the call throws
isBiometryAvailable_ThrowOpen(res) == res # "unavailable"

isBiometryAvailable(res) == res = "available"

\* promptBiometry: success as reported, false when cancelled or thrown
promptBiometry_ThrowOpen(res) == res \in {"success", "throws"}

promptBiometry(res) == res = "success"

\* the state tryToAuthenticate sets once the prompt has returned
PromptState(ok) == IF ok THEN "AUTHENTICATED" ELSE "UNAUTHENTICATED"

\* isSensorAvailable() settles: either simplePrompt is invoked or the
\* state is set to NOT_SUPPORTED
SensorSettled(r, res) ==
    /\ authRuns[r].pc = "sensor"
    /\ IF isBiometryAvailable(res)
       THEN /\ authRuns' = [authRuns EXCEPT ![r].pc = "prompt", ![r].sensor = res,
                                            ![r].prompted = TRUE]
            /\ UNCHANGED authenticated
       ELSE /\ authenticated' = "NOT_SUPPORTED"
            /\ authRuns' = [authRuns EXCEPT ![r].pc = "done", ![r].sensor = res,
                                            ![r].set = authenticated']
    /\ UNCHANGED <<tableData, loading, alerts, fetchCalls, fetchRuns>>

\* simplePrompt() settles
PromptSettled(r, res) ==
    /\ authRuns[r].pc = "prompt"
    /\ authenticated' = PromptState(promptBiometry(res))
    /\ authRuns' = [authRuns EXCEPT ![r].pc = "done", ![r].prompt = res,
                                    ![r].set = authenticated']
    /\ UNCHANGED <<tableData, loading, alerts, fetchCalls, fetchRuns>>

\* ----------------------------------------------------------------- render
\* the width prop of a cell whose column has no computed width
Undefined == -1

WidthAt(widthArr, k) == IF k <= Len(widthArr) THEN widthArr[k] ELSE Undefined

\* row.map((value, k) => <Td width={widthArr[k]} first={k === 0}>{value}</Td>)
RenderCells(entry, row) ==
    [k \in 1..Len(row) |->
        [width |-> WidthAt(entry.widthArr, k), first |-> k = 1, value |-> row[k]]]

\* the early return of the data rows map, j the 0-based row index
SkipRow(j, row) == j = 0 \/ Len(row) = 0

\* rows.map((row, j) => ...) of the data rows table; a skipped row renders
\* nothing
RECURSIVE RenderBody(_, _)
RenderBody(entry, j) ==
    IF j >= Len(entry.rows) THEN << >>
    ELSE IF SkipRow(j, entry.rows[j + 1]) THEN RenderBody(entry, j + 1)
    ELSE << [key |-> j, first |-> j <= 1,
             cells |-> RenderCells(entry, entry.rows[j + 1])] >>
         \o RenderBody(entry, j + 1)

\* one sheet of the render; rows[0].map throws when there is no row 0
RenderSheet(entry) ==
    IF Len(entry.rows) = 0 THEN [error |-> "TypeError"]
    ELSE [header |-> RenderCells(entry, entry.rows[1]),
          body |-> RenderBody(entry, 0)]

\* ------------------------------------------------------- specification
\* state after the first render and the useEffect that starts the
\* authentication run
Init ==
    /\ authenticated = "PENDING"
    /\ tableData = EmptyTableData
    /\ loading = FALSE
    /\ alerts = [t \in {"Auth error", "Fetch error"} |-> 0]
    /\ fetchCalls = 0
    /\ authRuns = <<NewAuthRun>>
    /\ fetchRuns = << >>

Next ==
    \/ FetchTable
    \/ \E f \in 1..Len(fetchRuns) : FetchResponse(f)
    \/ \E f \in 1..Len(fetchRuns) : FetchNetworkFailure(f)
    \/ \E f \in 1..Len(fetchRuns) : FetchParseFailure(f)
    \/ \E f \in 1..Len(fetchRuns) : \E worksheet \in Workbooks : FetchParsed(f, worksheet)
    \/ PressAuthenticate
    \/ \E r \in 1..Len(authRuns) : \E res \in {"available", "unavailable", "throws"} :
           SensorSettled(r, res)
    \/ \E r \in 1..Len(authRuns) : \E res \in {"success", "failure", "cancelled", "throws"} :
           PromptSettled(r, res)

Spec == Init /\ [][Next]_vars

\* ------------------------------------- specification for computeWidths
Cells == {Str(""), Str("yy"), Num(5), Num(-12)}

SeqsUpTo(S, n) == UNION {[1..k -> S] : k \in 0..n}

Rows == SeqsUpTo(Cells, MaxCols)

\* a fetch that passed the guard and awaits the decoded workbook
InitWidths ==
    /\ authenticated = "NOT_SUPPORTED"
    /\ tableData = EmptyTableData
    /\ loading = TRUE
    /\ alerts = [t \in {"Auth error", "Fetch error"} |-> 0]
    /\ fetchCalls = 1
    /\ authRuns = << [NewAuthRun EXCEPT !.pc = "done", !.sensor = "unavailable",
                                        !.set = "NOT_SUPPORTED"] >>
    /\ fetchRuns = << [pc |-> "base64", outcome |-> "none", worksheet |-> << >>] >>

\* the workbook decodes to one sheet with the rows drawn
ParseRows ==
    /\ fetchRuns[1].pc = "base64"
    /\ \E n \in 0..MaxRows : \E rows \in [1..n -> Rows] :
           FetchParsed(1, << [name |-> "Sheet1", rows |-> rows] >>)

NextWidths == ParseRows

SpecWidths == InitWidths /\ [][NextWidths]_vars

\* ---------------------------------------------------------------- claims
Max(S) == CHOOSE m \in S : \A x \in S : x <= m

\* C1: whenever fetchTable is invoked while the auth state is PENDING or
\* UNAUTHENTICATED, an alert is shown, no network fetch is started, and
\* loading and tableData are left unchanged.
C1_FetchGuard ==
    [][(fetchCalls' = fetchCalls + 1 /\ authenticated \in {"PENDING", "UNAUTHENTICATED"})
        => /\ alerts'["Auth error"] = alerts["Auth error"] + 1
           /\ fetchRuns' = fetchRuns
           /\ loading' = loading
           /\ tableData' = tableData]_vars

C1_Witness ==
    /\ alerts["Auth error"] >= 1
    /\ authenticated = "PENDING"
    /\ fetchRuns = << >>

\* C2: in every run of tryToAuthenticate whose sensor check reports
\* unavailable or throws, the prompt is never invoked and the run sets the
\* auth state to NOT_SUPPORTED.
C2_SensorUnavailable ==
    \A r \in 1..Len(authRuns) :
        authRuns[r].sensor \in {"unavailable", "throws"}
        => /\ ~authRuns[r].prompted
           /\ authRuns[r].prompt = "none"
           /\ authRuns[r].pc = "done"
           /\ authRuns[r].set = "NOT_SUPPORTED"

C2_Witness ==
    /\ authenticated = "NOT_SUPPORTED"
    /\ \E r \in 1..Len(authRuns) : authRuns[r].sensor = "throws"
    /\ \E r \in 1..Len(authRuns) : authRuns[r].sensor = "unavailable"

\* C3: in every run of tryToAuthenticate whose sensor check reports
\* available, the run sets AUTHENTICATED if the prompt returns success and
\* UNAUTHENTICATED if it returns failure, is cancelled or throws; it never
\* sets NOT_SUPPORTED or PENDING.
C3_PromptOutcome ==
    \A r \in 1..Len(authRuns) :
        authRuns[r].sensor = "available"
        => /\ authRuns[r].prompted
           /\ authRuns[r].pc = "prompt" => authRuns[r].set = "none"
           /\ authRuns[r].pc = "done" =>
                  \/ authRuns[r].prompt = "success" /\ authRuns[r].set = "AUTHENTICATED"
                  \/ /\ authRuns[r].prompt \in {"failure", "cancelled", "throws"}
                     /\ authRuns[r].set = "UNAUTHENTICATED"

C3_Witness ==
    /\ authenticated = "UNAUTHENTICATED"
    /\ \E r \in 1..Len(authRuns) :
           authRuns[r].prompt = "success" /\ authRuns[r].set = "AUTHENTICATED"
    /\ \E r \in 1..Len(authRuns) :
           authRuns[r].prompt = "throws" /\ authRuns[r].set = "UNAUTHENTICATED"

\* C4: a network failure during a fetch that passed the guard leaves
\* tableData empty, shows an alert, and ends with loading set back to false.
C4_NetworkFailure ==
    [][\A f \in 1..Len(fetchRuns) :
          (fetchRuns[f].pc # "done" /\ fetchRuns'[f].outcome = "network_error")
          => /\ tableData' = EmptyTableData
             /\ alerts'["Fetch error"] = alerts["Fetch error"] + 1
             /\ loading' = FALSE]_vars

C4_Witness ==
    /\ Len(fetchRuns) = 2
    /\ fetchRuns[1].outcome = "ok" /\ Len(fetchRuns[1].worksheet) >= 1
    /\ fetchRuns[2].outcome = "network_error"
    /\ tableData = EmptyTableData
    /\ ~loading
    /\ alerts["Fetch error"] = 1

\* C5: computeWidths returns a sequence as long as the longest row, whose
\* entry for each column is 10 + 10 x the longest stringified cell of that
\* column over the rows that have it; for no rows it returns the empty
\* sequence.
C5_ComputeWidths ==
    \A s \in DOMAIN tableData :
        LET rows == tableData[s].rows
            widthArr == tableData[s].widthArr
        IN /\ Len(widthArr) = Max({Len(rows[r]) : r \in 1..Len(rows)} \cup {0})
           /\ \A i \in 1..Len(widthArr) :
                  widthArr[i] = 10 + 10 * Max({Len(toString(rows[r][i])) :
                                    r \in {q \in 1..Len(rows) : Len(rows[q]) >= i}})
           /\ rows = << >> => widthArr = << >>

C5_Witness ==
    /\ "Sheet1" \in DOMAIN tableData
    /\ tableData["Sheet1"].rows =
           << <<Str(""), Num(-12)>>, <<Str("yy")>> >>
    /\ tableData["Sheet1"].widthArr = <<30, 40>>

\* C6: each per-sheet assignment replaces the whole mapping: after a
\* successful fetch of a workbook with sheets s1..sn (n >= 1) tableData has
\* exactly one key, sn, mapped to the widths and rows of sn; the workbook
\* {Sheet1: [["A","B"],["x","yy"]]} yields widths [20,30].
C6_LastSheetOnly ==
    LET n == Len(fetchRuns) IN
    (n >= 1 /\ fetchRuns[n].outcome = "ok" /\ Len(fetchRuns[n].worksheet) >= 1)
    => LET worksheet == fetchRuns[n].worksheet
           last == worksheet[Len(worksheet)]
       IN /\ DOMAIN tableData = {last.name}
          /\ tableData[last.name].rows = last.rows
          /\ tableData[last.name].widthArr = computeWidths(last.rows)
          /\ worksheet = << [name |-> "Sheet1",
                             rows |-> << <<Str("A"), Str("B")>>, <<Str("x"), Str("yy")>> >>] >>
             => tableData["Sheet1"].widthArr = <<20, 30>>

C6_Witness ==
    /\ Len(fetchRuns) >= 1
    /\ fetchRuns[Len(fetchRuns)].outcome = "ok"
    /\ Len(fetchRuns[Len(fetchRuns)].worksheet) = 2
    /\ DOMAIN tableData = {"Sheet2"}
    /\ tableData["Sheet2"].widthArr = <<40, 10>>

\* C7: for every sheet in tableData the rendered data rows are exactly the
\* rows with index > 0 and non-zero length, in order, the header is exactly
\* the cells of the row at index 0, and the cell at column k has width
\* widthArr[k].
C7_Render ==
    \A s \in DOMAIN tableData :
        LET entry == tableData[s]
            view == RenderSheet(entry)
        IN /\ DOMAIN view = {"header", "body"}
           /\ Len(view.header) = Len(entry.rows[1])
           /\ \A k \in 1..Len(view.header) :
                  /\ view.header[k].value = entry.rows[1][k]
                  /\ view.header[k].width = entry.widthArr[k]
           /\ {view.body[b].key : b \in 1..Len(view.body)}
                  = {j \in 1..(Len(entry.rows) - 1) : Len(entry.rows[j + 1]) > 0}
           /\ \A b \in 1..Len(view.body) :
                  /\ b > 1 => view.body[b - 1].key < view.body[b].key
                  /\ Len(view.body[b].cells) = Len(entry.rows[view.body[b].key + 1])
                  /\ \A k \in 1..Len(view.body[b].cells) :
                         /\ view.body[b].cells[k].value = entry.rows[view.body[b].key + 1][k]
                         /\ view.body[b].cells[k].width = entry.widthArr[k]

\* C8 as stated: while a fetch is in flight a press of "Load table" starts
\* a second concurrent fetch.
C8_SecondPressStartsFetch ==
    (InFlight # {} /\ fetchCalls < MaxFetchCalls)
    => ENABLED (FetchTable /\ Len(fetchRuns') > Len(fetchRuns))

\* C8 amended: while a fetch is in flight loading is true and the
\* "Load table" button is not rendered, so at most one fetch is in flight.
C8_SingleFetchInFlight ==
    /\ Cardinality(InFlight) <= 1
    /\ InFlight # {} => loading /\ ~ENABLED FetchTable

C8_Witness ==
    /\ Len(fetchRuns) >= 2
    /\ InFlight = {Len(fetchRuns)}
    /\ fetchCalls < MaxFetchCalls

C10_HeaderRowDefined ==
    \A s \in DOMAIN tableData : Len(tableData[s].rows) >= 1

====
